---- MODULE Spec2Model ----
(***************************************************************************)
(* Model of example.py, the interactive data plotter: one Streamlit        *)
(* session.  Every user interaction re-executes the whole script; the      *)
(* only state that survives a run is st.session_state (the trace list)     *)
(* and the values of the widgets the previous run rendered.                *)
(***************************************************************************)
EXTENDS Integers, Sequences, FiniteSets, TLC

VARIABLES session_state,  \* st.session_state: a mapping, key "traces" once initialised
          widgets,        \* the widgets the last run rendered, with their values
          page,           \* what the last completed run displayed
          event,          \* the interaction that triggered the last run
          builder_log,    \* history: records built by "add" since the last clear
          len_before      \* history: length of the trace list when the last run started

vars == <<session_state, widgets, page, event, builder_log, len_before>>

\* Bound of the model: "Add to Plot" is not clicked once the list is this long.
MaxTraces == 2

None == "None"

\* The files a user may pick in the uploader.
Files == {"a.csv", "b.csv", "bad.csv"}

\* Texts a user may type into one of the three text inputs.
EditTexts == {"custom"}

(***************************************************************************)
(* pd.read_csv(uploaded_file, sep=','): a table (ordered column names, one *)
(* value sequence per column, all of the same length) or an exception.     *)
(***************************************************************************)
read_csv(uploaded_file) ==
    CASE uploaded_file = "a.csv" ->
            [ok |-> TRUE,
             df |-> [columns |-> <<"time", "value">>,
                     data    |-> [time |-> <<1, 2>>, value |-> <<10, 20>>]]]
      [] uploaded_file = "b.csv" ->
            [ok |-> TRUE,
             df |-> [columns |-> <<"time">>,
                     data    |-> [time |-> <<7>>]]]
      [] OTHER ->
            [ok |-> FALSE, reason |-> "No columns to parse from file"]

ColumnSet(df) == {df.columns[i] : i \in 1..Len(df.columns)}

shape(df) == <<Len(df.data[df.columns[1]]), Len(df.columns)>>

\* Variant: the initialisation without its guard.
EnsureTracesAlways(ss) ==
    [traces |-> <<>>]

\* if 'traces' not in st.session_state: st.session_state.traces = []
EnsureTraces(ss) ==
    IF "traces" \in DOMAIN ss THEN ss ELSE [traces |-> <<>>]

(***************************************************************************)
(* Widgets without a key are identified by their parameters.  A widget     *)
(* keeps the user's value from the previous run only if a widget with the  *)
(* same parameters was rendered there; otherwise it shows its default.     *)
(***************************************************************************)
\* st.selectbox(label, df.columns): default is the first option.
Selectbox(options, prev_options, prev_value) ==
    IF options = prev_options THEN prev_value ELSE options[1]

\* st.text_input(label, value=default): <<>> is "not edited", <<t>> is the typed text.
TextInput(default, rendered_before, prev_default, prev_edit) ==
    IF rendered_before /\ default = prev_default THEN prev_edit ELSE <<>>

TextValue(default, edit) ==
    IF edit = <<>> THEN default ELSE edit[1]

\* Variant: the two column names in the other order.
DefaultTraceNameSwapped(y_column, x_column) ==
    x_column \o " vs " \o y_column

\* value=f"{y_column} vs {x_column}"
DefaultTraceName(y_column, x_column) ==
    y_column \o " vs " \o x_column

\* Variant: y taken from the preview (its first row) instead of the whole column.
new_trace_head(df, x_column, y_column, trace_name, x_label, y_label) ==
    [x       |-> df.data[x_column],
     y       |-> SubSeq(df.data[y_column], 1, 1),
     name    |-> trace_name,
     x_label |-> x_label,
     y_label |-> y_label]

\* new_trace = {'x': df[x_column].tolist(), 'y': df[y_column].tolist(), ...}
new_trace(df, x_column, y_column, trace_name, x_label, y_label) ==
    [x       |-> df.data[x_column],
     y       |-> df.data[y_column],
     name    |-> trace_name,
     x_label |-> x_label,
     y_label |-> y_label]

\* Variant: a record equal to one already stored is not stored again.
AddHandlerDedup(ss, trace) ==
    IF \E i \in 1..Len(ss.traces) : ss.traces[i] = trace
    THEN ss
    ELSE [ss EXCEPT !.traces = Append(@, trace)]

\* Variant: the stored records take over the axis labels of the new one.
AddHandlerRelabel(ss, trace) ==
    [ss EXCEPT !.traces =
        Append([i \in 1..Len(@) |->
                   [@[i] EXCEPT !.x_label = trace.x_label, !.y_label = trace.y_label]],
               trace)]

\* st.session_state.traces.append(new_trace)
AddHandler(ss, trace) ==
    [ss EXCEPT !.traces = Append(@, trace)]

\* Variant: only the most recent trace is removed.
ClearHandlerPop(ss) ==
    [ss EXCEPT !.traces = SubSeq(@, 1, Len(@) - 1)]

\* st.session_state.traces = []
ClearHandler(ss) ==
    [ss EXCEPT !.traces = <<>>]

\* Variant: the button is shown without looking at the list.
ClearOfferedAlways(ss) ==
    TRUE

\* if st.session_state.traces:  (guard of the "Clear All Traces" button)
ClearOffered(ss) ==
    ss.traces # <<>>

NoWidgets(uploaded_file) ==
    [uploaded_file |-> uploaded_file, columns |-> <<>>,
     x_column |-> None, y_column |-> None,
     x_edit |-> <<>>, y_edit |-> <<>>, name_edit |-> <<>>]

\* Variant: the handler also starts the trace list afresh.
ExceptHandlerReset(ss, uploaded_file, reason) ==
    [ss |-> [ss EXCEPT !.traces = <<>>], widgets |-> NoWidgets(uploaded_file),
     status |-> "error", message |-> "Error reading file: " \o reason,
     columns |-> <<>>, added |-> <<>>, clear_offered |-> FALSE, rerun |-> FALSE]

\* except Exception as e: st.error(f"... Error reading file: {e}")
ExceptHandler(ss, uploaded_file, reason) ==
    [ss |-> ss, widgets |-> NoWidgets(uploaded_file),
     status |-> "error", message |-> "Error reading file: " \o reason,
     columns |-> <<>>, added |-> <<>>, clear_offered |-> FALSE, rerun |-> FALSE]

(***************************************************************************)
(* Lines 25-95: the upload block.  req is the widget state the browser     *)
(* sent, prev the widgets the previous run rendered.                       *)
(***************************************************************************)
UploadBlock(ss, req, prev, add_clicked, clear_clicked) ==
    IF req.uploaded_file = None
    THEN [ss |-> ss, widgets |-> NoWidgets(None),
          status |-> "prompt", message |-> "",
          columns |-> <<>>, added |-> <<>>, clear_offered |-> FALSE, rerun |-> FALSE]
    ELSE
    LET res == read_csv(req.uploaded_file) IN
    IF ~res.ok
    THEN ExceptHandler(ss, req.uploaded_file, res.reason)
    ELSE
    LET df         == res.df
        shown      == prev.columns # <<>>
        x_column   == Selectbox(df.columns, prev.columns, req.x_column)
        y_column   == Selectbox(df.columns, prev.columns, req.y_column)
        name_dflt  == DefaultTraceName(y_column, x_column)
        x_edit     == TextInput(x_column, shown, prev.x_column, req.x_edit)
        y_edit     == TextInput(y_column, shown, prev.y_column, req.y_edit)
        name_edit  == TextInput(name_dflt, shown,
                                DefaultTraceName(prev.y_column, prev.x_column),
                                req.name_edit)
        x_label    == TextValue(x_column, x_edit)
        y_label    == TextValue(y_column, y_edit)
        trace_name == TextValue(name_dflt, name_edit)
        ss1        == IF add_clicked
                      THEN AddHandler(ss, new_trace(df, x_column, y_column,
                                                    trace_name, x_label, y_label))
                      ELSE ss
        offered    == ClearOffered(ss1)
        cleared    == offered /\ clear_clicked
        ss2        == IF cleared THEN ClearHandler(ss1) ELSE ss1
    IN  [ss |-> ss2,
         widgets |-> [uploaded_file |-> req.uploaded_file, columns |-> df.columns,
                      x_column |-> x_column, y_column |-> y_column,
                      x_edit |-> x_edit, y_edit |-> y_edit, name_edit |-> name_edit],
         status |-> "form",
         message |-> "File uploaded successfully",
         columns |-> df.columns,
         added |-> IF add_clicked THEN <<trace_name>> ELSE <<>>,
         clear_offered |-> offered,
         rerun |-> cleared]

\* Variant: the first trace instead of the last.
last_trace_first(traces) ==
    traces[1]

\* last_trace = st.session_state.traces[-1]
last_trace(traces) ==
    traces[Len(traces)]

\* go.Scatter(x=trace['x'], y=trace['y'], name=trace['name'], ...)
Scatter(trace) ==
    [x |-> trace.x, y |-> trace.y, name |-> trace.name, mode |-> "lines+markers"]

\* Variant: a single trace is not worth a chart.
PlotBlockSeveral(ss) ==
    IF Len(ss.traces) > 1
    THEN <<[series      |-> [i \in 1..Len(ss.traces) |-> Scatter(ss.traces[i])],
            xaxis_title |-> last_trace(ss.traces).x_label,
            yaxis_title |-> last_trace(ss.traces).y_label,
            count       |-> Len(ss.traces)]>>
    ELSE <<>>

(***************************************************************************)
(* Lines 97-148: the plot block.  <<>> when nothing is drawn, else one     *)
(* chart with its series, axis titles and the displayed trace count.       *)
(***************************************************************************)
PlotBlock(ss) ==
    IF ss.traces # <<>>
    THEN <<[series      |-> [i \in 1..Len(ss.traces) |-> Scatter(ss.traces[i])],
            xaxis_title |-> last_trace(ss.traces).x_label,
            yaxis_title |-> last_trace(ss.traces).y_label,
            count       |-> Len(ss.traces)]>>
    ELSE <<>>

(***************************************************************************)
(* One execution of the script, followed to completion: st.rerun() stops   *)
(* the run where it is called and starts the script again, with the same   *)
(* widget values and no button pressed.                                    *)
(* st.rerun() raises a script-control exception that is not an Exception,  *)
(* so the except clause of the upload block does not catch it.             *)
(***************************************************************************)
Completed(r) ==
    [ss |-> r.ss, widgets |-> r.widgets,
     page |-> [status |-> r.status, message |-> r.message,
               columns |-> r.columns, added |-> r.added,
               clear_offered |-> r.clear_offered,
               chart |-> PlotBlock(r.ss)]]

ScriptRun(ss0, req, prev, add_clicked, clear_clicked) ==
    LET r == UploadBlock(EnsureTraces(ss0), req, prev, add_clicked, clear_clicked)
    IN  IF r.rerun
        THEN Completed(UploadBlock(EnsureTraces(r.ss), r.widgets, r.widgets, FALSE, FALSE))
        ELSE Completed(r)

\* The session before the script has run: nothing in st.session_state.
NewSession == [k \in {} |-> <<>>]

\* The record the Trace Builder makes from the form the run rendered.
BuiltRecord(w) ==
    new_trace(read_csv(w.uploaded_file).df, w.x_column, w.y_column,
              TextValue(DefaultTraceName(w.y_column, w.x_column), w.name_edit),
              TextValue(w.x_column, w.x_edit),
              TextValue(w.y_column, w.y_edit))

Cycle(req, add_clicked, clear_clicked, ev) ==
    LET run == ScriptRun(session_state, req, widgets, add_clicked, clear_clicked) IN
    /\ session_state' = run.ss
    /\ widgets' = run.widgets
    /\ page' = run.page
    /\ event' = ev
    /\ len_before' = Len(session_state.traces)
    /\ builder_log' =
          CASE ev = "add"   -> Append(builder_log, BuiltRecord(run.widgets))
            [] ev = "clear" -> <<>>
            [] OTHER        -> builder_log

Init ==
    LET run == ScriptRun(NewSession, NoWidgets(None), NoWidgets(None), FALSE, FALSE) IN
    /\ session_state = run.ss
    /\ widgets = run.widgets
    /\ page = run.page
    /\ event = "start"
    /\ builder_log = <<>>
    /\ len_before = 0

FormShown == page.status = "form"

NumEdited(w) == Len(w.x_edit) + Len(w.y_edit) + Len(w.name_edit)

\* The user types into a text input of a form whose text inputs all show their
\* defaults: one typed text per form at a time.
CanEdit == FormShown /\ NumEdited(widgets) = 0

Upload ==
    \E f \in Files :
        /\ f # widgets.uploaded_file
        /\ Cycle([widgets EXCEPT !.uploaded_file = f], FALSE, FALSE, "other")

RemoveFile ==
    /\ widgets.uploaded_file # None
    /\ Cycle([widgets EXCEPT !.uploaded_file = None], FALSE, FALSE, "other")

SelectX ==
    /\ FormShown
    /\ \E c \in ColumnSet(page) :
        /\ c # widgets.x_column
        /\ Cycle([widgets EXCEPT !.x_column = c], FALSE, FALSE, "other")

SelectY ==
    /\ FormShown
    /\ \E c \in ColumnSet(page) :
        /\ c # widgets.y_column
        /\ Cycle([widgets EXCEPT !.y_column = c], FALSE, FALSE, "other")

EditXLabel ==
    /\ CanEdit
    /\ \E t \in EditTexts :
        /\ widgets.x_edit # <<t>>
        /\ Cycle([widgets EXCEPT !.x_edit = <<t>>], FALSE, FALSE, "other")

EditYLabel ==
    /\ CanEdit
    /\ \E t \in EditTexts :
        /\ widgets.y_edit # <<t>>
        /\ Cycle([widgets EXCEPT !.y_edit = <<t>>], FALSE, FALSE, "other")

EditTraceName ==
    /\ CanEdit
    /\ \E t \in EditTexts :
        /\ widgets.name_edit # <<t>>
        /\ Cycle([widgets EXCEPT !.name_edit = <<t>>], FALSE, FALSE, "other")

ClickAdd ==
    /\ FormShown
    /\ Len(session_state.traces) < MaxTraces
    /\ Cycle(widgets, TRUE, FALSE, "add")

ClickClear ==
    /\ page.clear_offered
    /\ Cycle(widgets, FALSE, TRUE, "clear")

Next ==
    \/ Upload
    \/ RemoveFile
    \/ SelectX
    \/ SelectY
    \/ EditXLabel
    \/ EditYLabel
    \/ EditTraceName
    \/ ClickAdd
    \/ ClickClear

Spec == Init /\ [][Next]_vars

(***************************************************************************)
(* Properties                                                              *)
(***************************************************************************)
traces == session_state.traces

ParseFails(w) == w.uploaded_file # None /\ ~read_csv(w.uploaded_file).ok

\* C1: after N adds and no clear since the list was empty, the trace list
\* has length N and its i-th element is the record built by the i-th add,
\* in call order; an identical record is appended again.
C1_StoreIsBuilderLog ==
    /\ Len(traces) = Len(builder_log)
    /\ \A i \in 1..Len(builder_log) : traces[i] = builder_log[i]

C1_Witness ==
    /\ event = "add"
    /\ Len(traces) >= 2
    /\ traces[1] = traces[2]

\* C2: a "clear all" leaves the trace list with length 0, whatever its
\* length was before.
C2_ClearEmptiesStore ==
    event = "clear" => Len(traces) = 0

C2_Witness ==
    /\ event = "clear"
    /\ len_before >= 2
    /\ Len(traces) = 0

\* C3: the record an add stores has x and y equal to the whole chosen
\* columns of the loaded table, in row order, and every stored record has
\* len(x) = len(y), the row count of the table it was built from.
C3_FullColumns ==
    /\ \A i \in 1..Len(traces) : Len(traces[i].x) = Len(traces[i].y)
    /\ event = "add" =>
          LET df == read_csv(widgets.uploaded_file).df
              t  == traces[Len(traces)]
          IN  /\ t.x = df.data[widgets.x_column]
              /\ t.y = df.data[widgets.y_column]
              /\ Len(t.x) = shape(df)[1]
              /\ Len(t.y) = shape(df)[1]

C3_Witness ==
    /\ event = "add"
    /\ widgets.x_column # widgets.y_column
    /\ Len(traces[Len(traces)].x) >= 2
    /\ traces[Len(traces)].x # traces[Len(traces)].y

\* C4: with nothing typed into the three text inputs, the record an add
\* stores for x-column X and y-column Y has x_label = X, y_label = Y and
\* name = "Y vs X".
C4_DefaultLabels ==
    (event = "add" /\ NumEdited(widgets) = 0) =>
        LET t == traces[Len(traces)]
        IN  /\ t.x_label = widgets.x_column
            /\ t.y_label = widgets.y_column
            /\ t.name = widgets.y_column \o " vs " \o widgets.x_column

C4_Witness ==
    /\ event = "add"
    /\ NumEdited(widgets) = 0
    /\ widgets.x_column = "time"
    /\ widgets.y_column = "value"
    /\ traces[Len(traces)].name = "value vs time"

\* C5: a rendered chart has the x_label and y_label of the last element of
\* the trace list as its axis titles.
C5_AxisTitlesFromLast ==
    page.chart # <<>> =>
        /\ page.chart[1].xaxis_title = traces[Len(traces)].x_label
        /\ page.chart[1].yaxis_title = traces[Len(traces)].y_label

C5_Witness ==
    /\ page.chart # <<>>
    /\ Len(traces) >= 2
    /\ traces[1].x_label # traces[Len(traces)].x_label
    /\ traces[1].y_label # traces[Len(traces)].y_label

\* C6: a run whose uploaded file fails to parse shows the error message with
\* the reason, leaves the trace list as it was, and still draws the traces
\* already stored.
C6_ParseFailureKeepsStore ==
    [][ParseFails(widgets') =>
          /\ page'.status = "error"
          /\ page'.message = "Error reading file: " \o read_csv(widgets'.uploaded_file).reason
          /\ session_state' = session_state
          /\ (traces # <<>> =>
                 /\ page'.chart # <<>>
                 /\ page'.chart[1].count = Len(traces))]_vars

C6_Witness ==
    /\ ParseFails(widgets)
    /\ event = "other"
    /\ page.status = "error"
    /\ Len(traces) >= 2
    /\ page.chart # <<>>

\* C7: a completed run draws the chart iff the trace list is non-empty at
\* its end, with or without an uploaded or parsed file; the chart has one
\* series per stored trace and shows their number; after a clear no chart.
C7_ChartIffNonEmpty ==
    /\ (page.chart # <<>>) <=> (traces # <<>>)
    /\ page.chart # <<>> =>
          /\ page.chart[1].count = Len(traces)
          /\ Len(page.chart[1].series) = Len(traces)
          /\ \A i \in 1..Len(traces) :
                /\ page.chart[1].series[i].x = traces[i].x
                /\ page.chart[1].series[i].y = traces[i].y
                /\ page.chart[1].series[i].name = traces[i].name
    /\ event = "clear" => page.chart = <<>>

C7_Witness ==
    /\ page.status = "prompt"
    /\ page.chart # <<>>
    /\ page.chart[1].count = 1

\* C8: whenever "clear all" is offered the trace list is non-empty (counting
\* an add of the same run), and a clear is never applied to an empty list.
C8_ClearOnlyOnNonEmpty ==
    /\ page.clear_offered => traces # <<>>
    /\ event = "clear" => len_before > 0

C8_Witness ==
    /\ page.clear_offered
    /\ event = "add"
    /\ len_before = 0

\* C9: without a clear, every stored record keeps its position and its x, y,
\* name, x_label and y_label, whatever is added or uploaded later.
C9_RecordsImmutable ==
    [][event' # "clear" =>
          /\ Len(traces') >= Len(traces)
          /\ \A i \in 1..Len(traces) : traces'[i] = traces[i]]_vars

C9_Witness ==
    /\ event = "add"
    /\ Len(traces) >= 2
    /\ traces[1].x # traces[2].x
    /\ traces[1].x_label # traces[2].x_label
    /\ widgets.uploaded_file = "b.csv"

\* C10: the trace list starts empty and only an add or a clear changes it; a
\* run triggered by any other interaction leaves it as it was.
C10_OnlyAddAndClearChange ==
    /\ traces = <<>>
    /\ [][event' \notin {"add", "clear"} => session_state' = session_state]_vars

C10_Witness ==
    /\ event = "other"
    /\ traces # <<>>
    /\ page.status = "form"
    /\ NumEdited(widgets) > 0

====
